---------------------------- MODULE Spec2Model ----------------------------
(***************************************************************************)
(* A model of the oesu_reader chart decoder.                               *)
(*                                                                         *)
(*   ChartFile::parse_file   (src/src/chartfile.rs)  the record loop       *)
(*   S57 and its setters     (src/src/s57.rs)        the feature model     *)
(*   S57::build_geometries   (src/src/s57.rs)        the chaining pass     *)
(*                                                                         *)
(* The byte stream handed to parse_file is modelled as a sequence of       *)
(* records.  A record is [type, len, short, body]: the two header fields   *)
(* as they stand in the stream, whether the stream ends before the         *)
(* declared end of the payload, and the payload.  Fixed layouts are held   *)
(* by field, text and attribute payloads byte by byte.  Floating-point     *)
(* numbers are held as integers standing for their bit patterns.           *)
(***************************************************************************)
EXTENDS Integers, Sequences, FiniteSets, TLC

-----------------------------------------------------------------------------
(* Bounds of the model.                                                    *)

\* Records one call of parse_file reads off an open-ended stream.
MaxRecords == 3
\* Directed tuples handed to one call of build_geometries.
MaxElements == 3

-----------------------------------------------------------------------------
(* Record type codes, chartfile.rs:47-77.                                  *)

HEADER_SENC_VERSION == 1
HEADER_CELL_NAME == 2
HEADER_CELL_PUBLISHDATE == 3
HEADER_CELL_EDITION == 4
HEADER_CELL_UPDATEDATE == 5
HEADER_CELL_UPDATE == 6
HEADER_CELL_NATIVESCALE == 7
HEADER_CELL_SENCCREATEDATE == 8
HEADER_CELL_SOUNDINGDATUM == 9
FEATURE_ID_RECORD == 64
FEATURE_ATTRIBUTE_RECORD == 65
FEATURE_GEOMETRY_RECORD_POINT == 80
FEATURE_GEOMETRY_RECORD_LINE == 81
FEATURE_GEOMETRY_RECORD_AREA == 82
FEATURE_GEOMETRY_RECORD_MULTIPOINT == 83
FEATURE_GEOMETRY_RECORD_AREA_EXT == 84
VECTOR_EDGE_NODE_TABLE_EXT_RECORD == 85
VECTOR_CONNECTED_NODE_TABLE_EXT_RECORD == 86
VECTOR_EDGE_NODE_TABLE_RECORD == 96
VECTOR_CONNECTED_NODE_TABLE_RECORD == 97
CELL_COVR_RECORD == 98
CELL_NOCOVR_RECORD == 99
CELL_EXTENT_RECORD == 100
CELL_TXTDSC_INFO_FILE_RECORD == 101
SERVER_STATUS_RECORD == 200

RecognizedTypes ==
  { HEADER_SENC_VERSION, HEADER_CELL_NAME, HEADER_CELL_PUBLISHDATE,
    HEADER_CELL_EDITION, HEADER_CELL_UPDATEDATE, HEADER_CELL_UPDATE,
    HEADER_CELL_NATIVESCALE, HEADER_CELL_SENCCREATEDATE,
    HEADER_CELL_SOUNDINGDATUM, FEATURE_ID_RECORD, FEATURE_ATTRIBUTE_RECORD,
    FEATURE_GEOMETRY_RECORD_POINT, FEATURE_GEOMETRY_RECORD_LINE,
    FEATURE_GEOMETRY_RECORD_AREA, FEATURE_GEOMETRY_RECORD_MULTIPOINT,
    FEATURE_GEOMETRY_RECORD_AREA_EXT, VECTOR_EDGE_NODE_TABLE_EXT_RECORD,
    VECTOR_CONNECTED_NODE_TABLE_EXT_RECORD, VECTOR_EDGE_NODE_TABLE_RECORD,
    VECTOR_CONNECTED_NODE_TABLE_RECORD, CELL_COVR_RECORD, CELL_NOCOVR_RECORD,
    CELL_EXTENT_RECORD, CELL_TXTDSC_INFO_FILE_RECORD, SERVER_STATUS_RECORD }

-----------------------------------------------------------------------------
(* Wire layout sizes, types.rs (all layouts are repr(C, packed)).          *)

\* size_of::<OsencRecordBase>(): u16 + u32
HeaderSize == 6
\* size_of::<OsencServerstatRecordPayload>(): 6 x u16
ServerstatSize == 12
\* size_of::<u16>() and size_of::<u32>()
U16Size == 2
U32Size == 4
\* size_of::<OsencExtentRecordPayload>(): 8 x f64
ExtentSize == 64
\* size_of::<OsencFeatureIdentificationRecordPayload>(): u16 + u16 + u8
FeatureIdSize == 5
\* size_of::<OsencAttributeRecordPayload>(): u16 + u8 + 8-byte union
AttributeSize == 11
\* size_of::<*const c_char>()
PointerSize == 8
\* size_of::<OsencPointGeometryRecordPayload>(): 2 x f64
PointSize == 16
\* size_of::<OsencAreaGeometryRecordPayload>(): 4 x f64 + 3 x u32
AreaHeaderSize == 44
\* size_of::<OsencLineGeometryRecordPayload>(): 4 x f64 + u32
LineHeaderSize == 36
\* size_of::<OsencMultipointGeometryRecordPayload>(): 4 x f64 + u32
MultipointHeaderSize == 36
\* size_of::<LineElement>(): 3 x u32 + Direction, aligned to 4
LineElementSize == 16
\* size_of::<f32>() and size_of::<f64>()
F32Size == 4
F64Size == 8
\* the length limits of the two checked headers and the minimum version
ServerStatusLenLimit == 20
VersionLenLimit == 16
MinVersion == 201

-----------------------------------------------------------------------------
(* Results of parse_file.                                                  *)

Running == "running"
Ok == "Ok"
ErrHeader == "Err: Failed to parse header"
ErrVersion == "Err: Unsupported Version"
ErrExpired == "Err: Chart expired"
ErrSignature == "Err: Signature failure"
\* the std::io::Error of a read_exact that met the end of its source
ErrEof == "Err: failed to fill whole buffer"
\* a failed assert_eq!, an arithmetic overflow or an impossible allocation:
\* the call does not return
Panic == "panic"

ErrResults == {ErrHeader, ErrVersion, ErrExpired, ErrSignature, ErrEof}

-----------------------------------------------------------------------------
(* Bytes, little-endian integers, UTF-8 and C strings.                     *)

RECURSIVE LittleEndian(_)
\* The unsigned integer whose little-endian bytes are b (a transmute of the
\* bytes read on a little-endian target).
LittleEndian(b) ==
  IF b = <<>> THEN 0 ELSE Head(b) + 256 * LittleEndian(Tail(b))

\* The bytes of b from 1-based index from to index to, both inclusive.
Slice(b, from, to) == [i \in 1..(to - from + 1) |-> b[from + i - 1]]

IsCont(x) == x >= 128 /\ x <= 191

\* The number of bytes of the well-formed UTF-8 sequence b starts with, or 0
\* when b starts with none (the table String::from_utf8 validates against).
Utf8SeqLen(b) ==
  LET n == Len(b)
      b1 == b[1]
      c(i) == n >= i /\ IsCont(b[i])
  IN  IF b1 < 128 THEN 1
      ELSE IF b1 >= 194 /\ b1 <= 223 /\ c(2) THEN 2
      ELSE IF b1 = 224 /\ n >= 2 /\ b[2] >= 160 /\ b[2] <= 191 /\ c(3) THEN 3
      ELSE IF b1 >= 225 /\ b1 <= 236 /\ c(2) /\ c(3) THEN 3
      ELSE IF b1 = 237 /\ n >= 2 /\ b[2] >= 128 /\ b[2] <= 159 /\ c(3) THEN 3
      ELSE IF b1 >= 238 /\ b1 <= 239 /\ c(2) /\ c(3) THEN 3
      ELSE IF b1 = 240 /\ n >= 2 /\ b[2] >= 144 /\ b[2] <= 191 /\ c(3) /\ c(4)
        THEN 4
      ELSE IF b1 >= 241 /\ b1 <= 243 /\ c(2) /\ c(3) /\ c(4) THEN 4
      ELSE IF b1 = 244 /\ n >= 2 /\ b[2] >= 128 /\ b[2] <= 143 /\ c(3) /\ c(4)
        THEN 4
      ELSE 0

RECURSIVE Utf8Valid(_)
\* String::from_utf8(buf).is_ok()
Utf8Valid(b) ==
  IF b = <<>> THEN TRUE
  ELSE LET k == Utf8SeqLen(b)
       IN  k > 0 /\ Utf8Valid(SubSeq(b, k + 1, Len(b)))

RECURSIVE UntilNul(_)
\* The bytes of b before its first zero byte (all of b when it holds none).
UntilNul(b) ==
  IF b = <<>> \/ Head(b) = 0 THEN <<>> ELSE <<Head(b)>> \o UntilNul(Tail(b))

HasNul(b) == \E i \in 1..Len(b) : b[i] = 0

-----------------------------------------------------------------------------
(* Code tables, s57.rs.  Every variant's discriminant is its type code, so *)
(* a variant is held as that code and Unknown as 0.                        *)

Unknown == 0

\* The codes S57Attribute::from_type_code has an arm for.
KnownAttributeCodes ==
  (1..29) \cup (32..40) \cup (42..71) \cup (73..91) \cup (93..149)
    \cup (151..189) \cup (300..304) \cup (400..402)

S57Attribute_from_type_code(type_code) ==
  IF type_code \in KnownAttributeCodes THEN type_code ELSE Unknown

\* The codes S57Type::from_type_code has a non-Unknown arm for.
KnownTypeCodes == (1..160) \cup (300..312) \cup (400..402) \cup (500..504)

S57Type_from_type_code(type_code) ==
  IF type_code \in KnownTypeCodes THEN type_code ELSE Unknown

-----------------------------------------------------------------------------
(* The feature model, s57.rs.                                              *)

None == <<>>
Some(x) == <<x>>

\* HashMap::new()
EmptyMap == <<>>

\* MapInsert keeping the entry a key already has.
MapInsert_keep(m, k, v) ==
  [x \in (DOMAIN m) \cup {k} |-> IF x \in DOMAIN m THEN m[x] ELSE v]

\* HashMap::insert
MapInsert(m, k, v) ==
  [x \in (DOMAIN m) \cup {k} |-> IF x = k THEN v ELSE m[x]]

\* s57::AttributeValue; every payload is held as a sequence.
UInt32(n) == [tag |-> "UInt32", v |-> <<n>>]
Double(bits) == [tag |-> "Double", v |-> bits]
String(bytes) == [tag |-> "String", v |-> bytes]

Position(lat, lon) == [lat |-> lat, lon |-> lon]

S57_from_type_code(type_code) ==
  [ s57_type |-> S57Type_from_type_code(type_code),
    line_elements |-> <<>>,
    polygon_line_elements |-> <<>>,
    lines |-> <<>>,
    polygons |-> <<>>,
    multi_point_geometry |-> <<>>,
    point_geometry |-> None,
    attributes |-> EmptyMap ]

set_attribute(s57, attribute, value) ==
  [s57 EXCEPT !.attributes = MapInsert(@, attribute, value)]

set_line_geometry(s57, elements) == [s57 EXCEPT !.line_elements = elements]

\* set_polygon_geometry storing the edges as line edges too.
set_polygon_geometry_shared(s57, elements) ==
  [s57 EXCEPT !.polygon_line_elements = elements, !.line_elements = elements]

set_polygon_geometry(s57, elements) ==
  [s57 EXCEPT !.polygon_line_elements = elements]

\* set_point_geometry dropping what the other geometry fields hold.
set_point_geometry_exclusive(s57, position) ==
  [s57 EXCEPT !.point_geometry = Some(position),
              !.multi_point_geometry = <<>>,
              !.line_elements = <<>>,
              !.polygon_line_elements = <<>>]

set_point_geometry(s57, position) ==
  [s57 EXCEPT !.point_geometry = Some(position)]

set_multi_point_geometry(s57, points) ==
  [s57 EXCEPT !.multi_point_geometry = points]

\* Rect::center and Position::from_simple_mercator are used by chartfile.rs
\* and defined in no file of src/.  The inverse projection is kept as the
\* term of its three arguments.
Rect_center(rect) ==
  [mid_of |-> <<rect.top_left, rect.bottom_right>>]

from_simple_mercator(easting, northing, origin) ==
  [easting |-> easting, northing |-> northing, origin |-> origin]

-----------------------------------------------------------------------------
(* The records a stream may hold.  Each set mixes well-formed records      *)
(* with records whose declared length is wrong, is below the header size,  *)
(* or runs past the end of the stream (short).                             *)

Rec(type, len, short, body) ==
  [type |-> type, len |-> len, short |-> short, body |-> body]

\* A declared length below the header size, used for every record kind.
TinyLen == 4

\* The records of a fixed layout of size bytes: one well-formed record
\* for each body and, holding body bad, one of a declared length below the
\* header size, one a byte too long and one the stream ends in.
FixedRecords(type, size, bodies, bad) ==
  { Rec(type, HeaderSize + size, FALSE, b) : b \in bodies }
    \cup { Rec(type, l, FALSE, bad) : l \in {TinyLen, HeaderSize + size + 1} }
    \cup { Rec(type, HeaderSize + size, TRUE, bad) }

Versions == {200, 201, 202}

VersionRecords ==
  FixedRecords(HEADER_SENC_VERSION, U16Size, Versions, 200)
    \cup { Rec(HEADER_SENC_VERSION, VersionLenLimit, FALSE, 200) }

ServerStatusBodies ==
  [ server_status : {1}, decrypt_status : {0, 1}, expire_status : {0, 1},
    expire_days_remaining : {30}, grace_days_allowed : {0},
    grace_days_remaining : {0} ]

ExpiredStatus ==
  [ server_status |-> 1, decrypt_status |-> 1, expire_status |-> 0,
    expire_days_remaining |-> 30, grace_days_allowed |-> 0,
    grace_days_remaining |-> 0 ]

ServerStatusRecords ==
  FixedRecords(SERVER_STATUS_RECORD, ServerstatSize, ServerStatusBodies,
               ExpiredStatus)
    \cup { Rec(SERVER_STATUS_RECORD, ServerStatusLenLimit, FALSE, ExpiredStatus) }

\* "TEST", a two-byte sequence (U+00E9) and a byte string that is not UTF-8.
TextPayloads == { <<84, 69, 83, 84>>, <<195, 169>>, <<65, 255>> }

\* The records of a payload read whole into a buffer: one for each payload
\* and, holding payload bad, one of a declared length below the header size
\* and one the stream ends in.
VarRecords(type, payloads, bad) ==
  { Rec(type, HeaderSize + Len(b), FALSE, b) : b \in payloads }
    \cup { Rec(type, TinyLen, FALSE, bad),
           Rec(type, HeaderSize + Len(bad), TRUE, bad) }

TextRecords(type) == VarRecords(type, TextPayloads, <<84, 69, 83, 84>>)

ScalarValues == {1, 2}

ScalarRecords(type, size) == FixedRecords(type, size, ScalarValues, 1)

\* The records parse_file seeks over: of a declared length of 0, of one
\* below the header size, with a 4-byte payload, and with a payload the
\* stream ends in.
SkipRecords(type) ==
  { Rec(type, 0, FALSE, <<>>), Rec(type, TinyLen, FALSE, <<>>),
    Rec(type, HeaderSize + 4, FALSE, <<>>),
    Rec(type, HeaderSize + 4, TRUE, <<>>) }

ExtentBodies ==
  { [ extent_sw_lat |-> 0, extent_sw_lon |-> 10, extent_nw_lat |-> 10,
      extent_nw_lon |-> 10, extent_ne_lat |-> 10, extent_ne_lon |-> 20,
      extent_se_lat |-> 0, extent_se_lon |-> 20 ],
    [ extent_sw_lat |-> 48, extent_sw_lon |-> 8, extent_nw_lat |-> 50,
      extent_nw_lon |-> 8, extent_ne_lat |-> 50, extent_ne_lon |-> 9,
      extent_se_lat |-> 48, extent_se_lon |-> 9 ] }

ExtentRecords ==
  FixedRecords(CELL_EXTENT_RECORD, ExtentSize, ExtentBodies,
               CHOOSE b \in ExtentBodies : b.extent_nw_lat = 10)

\* 42 and 1 are in the type-code table, 161 is not.
FeatureTypeCodes == {1, 42, 161}

FeatureIdBody(code) ==
  [feature_type_code |-> code, feature_id |-> 9, feature_primitive |-> 1]

FeatureIdRecords ==
  FixedRecords(FEATURE_ID_RECORD, FeatureIdSize,
               { FeatureIdBody(c) : c \in FeatureTypeCodes }, FeatureIdBody(42))

\* Attribute payloads, byte by byte: type code (u16), value type (u8), value.
AttributePayloads ==
  { <<1, 0, 0, 7, 0, 0, 0>>,              \* AGENCY, integer 7
    <<1, 0, 0, 1, 2, 0, 0>>,              \* AGENCY, integer 513
    <<2, 0, 0, 7, 0, 0, 0>>,              \* BCNSHP, integer 7
    <<1, 0, 2, 0, 0, 0, 0, 0, 0, 20, 64>>, \* AGENCY, a double
    <<1, 0, 4, 65, 0>>,                   \* AGENCY, text "A"
    <<2, 0, 4, 65, 66, 0, 67, 0, 0, 0, 0, 0>>, \* BCNSHP, text "AB", 12 bytes
    <<1, 0, 4, 65, 66>>,                  \* AGENCY, text with no zero byte
    <<1, 0, 4, 255, 0>>,                  \* AGENCY, text that is not UTF-8
    <<1, 0, 1, 5, 0, 0, 0>>,              \* AGENCY, value type 1
    <<30, 0, 0, 7, 0, 0, 0>>,             \* code 30: not in the table
    <<0, 0, 4, 65, 0>>,                   \* code 0, text "A"
    <<150, 0, 2, 0, 0, 0, 0, 0, 0, 20, 64>>, \* code 150, a double
    <<1, 0>> }                            \* shorter than its own prefix

AttributeRecords ==
  VarRecords(FEATURE_ATTRIBUTE_RECORD, AttributePayloads,
             <<1, 0, 0, 7, 0, 0, 0>>)

PointBodies == { [lat |-> 5, lon |-> 15], [lat |-> 7, lon |-> 3] }

PointRecords ==
  FixedRecords(FEATURE_GEOMETRY_RECORD_POINT, PointSize, PointBodies,
               [lat |-> 5, lon |-> 15])

\* Directed edge tuples (s57.rs LineElement).
Forward == "Forward"
Reverse == "Reverse"

LineElement(start, edge, end, direction) ==
  [ start_connected_node |-> start, edge_vector |-> edge,
    end_connected_node |-> end, direction |-> direction ]

ElementLists ==
  { <<>>,
    <<LineElement(1, 0, 2, Forward)>>,
    <<LineElement(2, 7, 3, Reverse), LineElement(1, 0, 2, Forward)>> }

\* Line payload: the 36-byte header, the tuples, pad trailing bytes.
LineBodies ==
  [elements : ElementLists, pad : {0}]
    \cup { [elements |-> <<LineElement(1, 0, 2, Forward)>>, pad |-> 3] }

NoElements == [elements |-> <<>>, pad |-> 0]

LinePayloadSize(b) == LineHeaderSize + LineElementSize * Len(b.elements) + b.pad

\* A payload size below the header sizes of the three geometry layouts.
StubSize == 20

LineRecords ==
  { Rec(FEATURE_GEOMETRY_RECORD_LINE, HeaderSize + LinePayloadSize(b), FALSE, b) :
      b \in LineBodies }
    \cup { Rec(FEATURE_GEOMETRY_RECORD_LINE, l, FALSE, NoElements) :
             l \in {TinyLen, HeaderSize + StubSize} }
    \cup { Rec(FEATURE_GEOMETRY_RECORD_LINE, HeaderSize + LineHeaderSize, TRUE,
               NoElements) }

\* Area payload: the 44-byte header, contour_count contour lengths, the
\* triangle primitives (nverts holds each one's vertex count), the tuples,
\* pad trailing bytes.
AreaBodies ==
  [ contour_count : {2}, nverts : {<<>>, <<1, 2>>},
    elements : ElementLists \ {<<>>}, pad : {0} ]
    \cup [ contour_count : {1}, nverts : {<<3>>}, elements : {<<>>}, pad : {0, 3} ]

NoArea ==
  [contour_count |-> 0, nverts |-> <<>>, elements |-> <<>>, pad |-> 0]

RECURSIVE SumSeq(_)
SumSeq(q) == IF q = <<>> THEN 0 ELSE Head(q) + SumSeq(Tail(q))

\* TriprimSize without the seek over the kind tag.
TriprimSize_no_tag(n) == U32Size + 4 * F64Size + n * 2 * F32Size

\* The bytes one triangle primitive of n vertices takes: kind tag, vertex
\* count, bounding box of 4 doubles, n x 2 floats.
TriprimSize(n) == 1 + U32Size + 4 * F64Size + n * 2 * F32Size

\* Payload offset of the cursor after the tessellation data of b.
AreaEdgeOffset(b) ==
  AreaHeaderSize + b.contour_count * U32Size
    + SumSeq([i \in 1..Len(b.nverts) |-> TriprimSize(b.nverts[i])])

AreaPayloadSize(b) ==
  AreaEdgeOffset(b) + LineElementSize * Len(b.elements) + b.pad

AreaRecords ==
  { Rec(FEATURE_GEOMETRY_RECORD_AREA, HeaderSize + AreaPayloadSize(b), FALSE, b) :
      b \in AreaBodies }
    \cup { Rec(FEATURE_GEOMETRY_RECORD_AREA, l, FALSE, NoArea) :
             l \in {TinyLen, HeaderSize + StubSize} }
    \cup { Rec(FEATURE_GEOMETRY_RECORD_AREA, HeaderSize + AreaHeaderSize, TRUE,
               NoArea) }

\* Multipoint payload: the 36-byte header with point_count, then floats.
MultipointBodies ==
  { [point_count |-> 0, floats |-> <<>>],
    [point_count |-> 1, floats |-> <<11, 12, 13>>],
    [point_count |-> 2, floats |-> <<11, 12, 13, 21, 22, 23>>],
    [point_count |-> 7, floats |-> <<11, 12, 13>>] }

NoPoints == [point_count |-> 0, floats |-> <<>>]

MultipointPayloadSize(b) == MultipointHeaderSize + F32Size * Len(b.floats)

MultipointRecords ==
  { Rec(FEATURE_GEOMETRY_RECORD_MULTIPOINT,
        HeaderSize + MultipointPayloadSize(b), FALSE, b) :
      b \in MultipointBodies }
    \cup { Rec(FEATURE_GEOMETRY_RECORD_MULTIPOINT, l, FALSE, NoPoints) :
             l \in {TinyLen, HeaderSize + StubSize} }
    \cup { Rec(FEATURE_GEOMETRY_RECORD_MULTIPOINT,
               HeaderSize + MultipointHeaderSize, TRUE, NoPoints) }

\* Headers of type 0 and of two codes parse_file has no arm for.
EndMarkerRecords == { Rec(0, l, FALSE, <<>>) : l \in {0, HeaderSize} }

UnrecognizedTypes == {10, 300}

UnrecognizedRecords ==
  { Rec(t, l, FALSE, <<>>) : t \in UnrecognizedTypes, l \in {0, HeaderSize + 4} }

SkippedTypes ==
  { HEADER_CELL_SENCCREATEDATE, CELL_COVR_RECORD, CELL_NOCOVR_RECORD,
    FEATURE_GEOMETRY_RECORD_AREA_EXT, VECTOR_EDGE_NODE_TABLE_RECORD,
    VECTOR_EDGE_NODE_TABLE_EXT_RECORD, VECTOR_CONNECTED_NODE_TABLE_RECORD,
    VECTOR_CONNECTED_NODE_TABLE_EXT_RECORD, CELL_TXTDSC_INFO_FILE_RECORD }

TextTypes ==
  { HEADER_CELL_NAME, HEADER_CELL_PUBLISHDATE, HEADER_CELL_UPDATEDATE,
    HEADER_CELL_SOUNDINGDATUM }

\* The records of one type code.
Records(type) ==
  CASE type = HEADER_SENC_VERSION -> VersionRecords
    [] type = SERVER_STATUS_RECORD -> ServerStatusRecords
    [] type \in TextTypes -> TextRecords(type)
    [] type \in {HEADER_CELL_EDITION, HEADER_CELL_UPDATE} ->
         ScalarRecords(type, U16Size)
    [] type = HEADER_CELL_NATIVESCALE -> ScalarRecords(type, U32Size)
    [] type \in SkippedTypes -> SkipRecords(type)
    [] type = CELL_EXTENT_RECORD -> ExtentRecords
    [] type = FEATURE_ID_RECORD -> FeatureIdRecords
    [] type = FEATURE_ATTRIBUTE_RECORD -> AttributeRecords
    [] type = FEATURE_GEOMETRY_RECORD_POINT -> PointRecords
    [] type = FEATURE_GEOMETRY_RECORD_LINE -> LineRecords
    [] type = FEATURE_GEOMETRY_RECORD_AREA -> AreaRecords
    [] type = FEATURE_GEOMETRY_RECORD_MULTIPOINT -> MultipointRecords
    [] type = 0 -> EndMarkerRecords
    [] OTHER -> { r \in UnrecognizedRecords : r.type = type }

\* What a read outside an allocation may find there.
GarbageBytes == {0, 65}
GarbageFloats == {0, 99}

-----------------------------------------------------------------------------
(* State.                                                                  *)

VARIABLES
  reader,         \* the stream: [open, recs, at]; recs are the records it
                  \* is known to hold, at the index of the one read next; an
                  \* open stream goes on with any records
  nread,          \* record headers read so far
  pos,            \* stream offset of the next header
  result,         \* Running, or what parse_file ended with
  last,           \* the record whose header the loop read last (NoHeader
                  \* before the first and when the read failed)
  extent, name, publishdate, edition, updatedate, update, nativescale,
  soundingdatum,  \* the locals of parse_file that become the ChartFile
  s57_vector,     \* the features decoded so far
  current_s57,    \* index into s57_vector of the current feature, 0 for None
  line_elements,  \* build_geometries: the tuples handed in
  consumed,       \* build_geometries: tuples the chaining loop has taken
  line_strings,   \* build_geometries: the chains
  vector_edges,   \* build_geometries: edge id -> interior positions
  connected_nodes,\* build_geometries: node id -> position
  geometries,     \* build_geometries: the coordinate sequences
  built           \* build_geometries: the second loop has run

meta ==
  <<name, publishdate, edition, updatedate, update, nativescale, soundingdatum>>

features == <<s57_vector, current_s57>>

chart == <<extent, meta, features>>

chain == <<line_elements, consumed, line_strings, vector_edges,
           connected_nodes, geometries, built>>

vars == <<reader, nread, pos, result, last, chart, chain>>

DefaultExtent ==
  [top_left |-> Position(0, 0), bottom_right |-> Position(0, 0)]

\* What last holds when no header was read.
NoHeader == Rec(-1, 0, FALSE, <<>>)

\* parse_file up to its loop.
InitParser ==
  /\ nread = 0
  /\ last = NoHeader
  /\ pos = 0
  /\ result = Running
  /\ extent = DefaultExtent
  /\ name = <<>>
  /\ publishdate = <<>>
  /\ edition = 0
  /\ updatedate = <<>>
  /\ update = 0
  /\ nativescale = 0
  /\ soundingdatum = <<>>
  /\ s57_vector = <<>>
  /\ current_s57 = 0

ChainIdle ==
  /\ line_elements = <<>>
  /\ consumed = 0
  /\ line_strings = <<>>
  /\ vector_edges = <<>>
  /\ connected_nodes = <<>>
  /\ geometries = <<>>
  /\ built = FALSE

OpenStream == [open |-> TRUE, recs |-> <<>>, at |-> 1]

\* A stream holding exactly the records recs.
Stream(recs) == [open |-> FALSE, recs |-> recs, at |-> 1]

Init ==
  /\ reader = OpenStream
  /\ InitParser
  /\ ChainIdle

-----------------------------------------------------------------------------
(* The reader.                                                             *)

\* The records of one type code whose header the next read_exact may
\* deliver.
Offered(type) ==
  IF result # Running THEN {}
  ELSE IF reader.open
    THEN IF nread < MaxRecords THEN Records(type) ELSE {}
  ELSE IF reader.at <= Len(reader.recs) /\ reader.recs[reader.at].type = type
    THEN {reader.recs[reader.at]}
  ELSE {}

\* The reader once record r has been read or skipped in full.
After(r) ==
  IF r.short THEN [reader EXCEPT !.open = FALSE, !.at = Len(reader.recs) + 1]
  ELSE IF reader.open THEN reader
  ELSE [reader EXCEPT !.at = @ + 1]

\* The reader after a relative seek by r.len - 6 < 0: the next header is
\* read from bytes the loop has already seen.
AfterSeekBack(r) ==
  IF reader.open \/ r.len = 0 THEN reader ELSE OpenStream

\* parse_file returns (or panics) with res after the header of r.
Return(r, res) ==
  /\ result' = res
  /\ last' = r
  /\ UNCHANGED <<reader, nread, pos, chart, chain>>

\* The loop goes on after the header of r and the n payload bytes the
\* handler took from the stream.
Proceed(r, n) ==
  /\ result' = result
  /\ last' = r
  /\ nread' = nread + 1
  /\ pos' = pos + HeaderSize + n
  /\ reader' = After(r)
  /\ UNCHANGED chain

-----------------------------------------------------------------------------
(* What reading a payload comes to: Running when the handler goes on to    *)
(* decode it.                                                              *)

\* buf_size = record_len as usize - size_of::<OsencRecordBase>() wraps or
\* panics when the declared length is below the header size.
Underflows(r) == r.len < HeaderSize

\* assert_eq!(buf_size, size) and read_exact of a fixed-size buffer.  An
\* underflowed buf_size panics at the subtraction or at the assert_eq!.
FixedOutcome(r, size) ==
  IF Underflows(r) THEN Panic
  ELSE IF r.len - HeaderSize # size THEN Panic
  ELSE IF r.short THEN ErrEof
  ELSE Running

\* vec![0u8; buf_size] and read_exact.  An underflowed buf_size panics at
\* the subtraction or at the allocation (capacity overflow).
VarOutcome(r) ==
  IF Underflows(r) THEN Panic
  ELSE IF r.short THEN ErrEof
  ELSE Running

\* ServerStatusOutcome with the two status checks in the other order.
ServerStatusOutcome_decrypt_first(r) ==
  IF r.len >= ServerStatusLenLimit THEN ErrHeader
  ELSE IF FixedOutcome(r, ServerstatSize) # Running
    THEN FixedOutcome(r, ServerstatSize)
  ELSE IF r.body.decrypt_status = 0 THEN ErrSignature
  ELSE IF r.body.expire_status = 0 THEN ErrExpired
  ELSE Running

ServerStatusOutcome(r) ==
  IF r.len >= ServerStatusLenLimit THEN ErrHeader
  ELSE IF FixedOutcome(r, ServerstatSize) # Running
    THEN FixedOutcome(r, ServerstatSize)
  ELSE IF r.body.expire_status = 0 THEN ErrExpired
  ELSE IF r.body.decrypt_status = 0 THEN ErrSignature
  ELSE Running

\* VersionOutcome refusing the minimum version itself.
VersionOutcome_exclusive(r) ==
  IF r.len < HeaderSize \/ r.len >= VersionLenLimit THEN ErrHeader
  ELSE IF FixedOutcome(r, U16Size) # Running THEN FixedOutcome(r, U16Size)
  ELSE IF r.body <= MinVersion THEN ErrVersion
  ELSE Running

VersionOutcome(r) ==
  IF r.len < HeaderSize \/ r.len >= VersionLenLimit THEN ErrHeader
  ELSE IF FixedOutcome(r, U16Size) # Running THEN FixedOutcome(r, U16Size)
  ELSE IF r.body < MinVersion THEN ErrVersion
  ELSE Running

\* TextField emptying the field when the payload does not decode.
TextField_reset(old, buf) == IF Utf8Valid(buf) THEN buf ELSE <<>>

\* if let Ok(text) = String::from_utf8(buf) { field = text }
TextField(old, buf) == IF Utf8Valid(buf) THEN buf ELSE old

\* ExtentOf taking the other diagonal.
ExtentOf_other_diagonal(b) ==
  [ top_left |-> Position(b.extent_sw_lat, b.extent_sw_lon),
    bottom_right |-> Position(b.extent_ne_lat, b.extent_ne_lon) ]

ExtentOf(b) ==
  [ top_left |-> Position(b.extent_nw_lat, b.extent_nw_lon),
    bottom_right |-> Position(b.extent_se_lat, b.extent_se_lon) ]

-----------------------------------------------------------------------------
(* Decoding of the variable payloads.                                      *)

\* The memory at the address of an attribute payload buffer: the buffer,
\* then bytes outside the allocation (each g) up to the 11 bytes
\* read_unaligned takes and the zero byte CStr::from_ptr stops at.
Memory(buf, g) ==
  LET k == IF Len(buf) < AttributeSize THEN AttributeSize - Len(buf) ELSE 1
  IN  buf \o [i \in 1..k |-> g] \o <<0>>

\* Offset of the text of a value of type 4.
StringOffset == AttributeSize - PointerSize

attribute_type_code(mem) == LittleEndian(Slice(mem, 1, 2))
attribute_value_type(mem) == mem[3]

\* CStr::from_ptr(buf.as_ptr().add(string_offset))
CStrAt(mem) == UntilNul(SubSeq(mem, StringOffset + 1, Len(mem)))

\* AttributeValueOf taking every other value type for an integer.
AttributeValueOf_integer_default(mem) ==
  CASE attribute_value_type(mem) = 2 ->
         Some(Double(Slice(mem, 4, AttributeSize)))
    [] attribute_value_type(mem) = 4 ->
         IF Utf8Valid(CStrAt(mem)) THEN Some(String(CStrAt(mem))) ELSE None
    [] OTHER -> Some(UInt32(LittleEndian(Slice(mem, 4, 7))))

\* The value the match on attribute_value_type hands to set_attribute, or
\* None when it stores nothing.
AttributeValueOf(mem) ==
  CASE attribute_value_type(mem) = 0 ->
         Some(UInt32(LittleEndian(Slice(mem, 4, 7))))
    [] attribute_value_type(mem) = 2 ->
         Some(Double(Slice(mem, 4, AttributeSize)))
    [] attribute_value_type(mem) = 4 ->
         IF Utf8Valid(CStrAt(mem)) THEN Some(String(CStrAt(mem))) ELSE None
    [] OTHER -> None

\* WithAttribute storing the value whatever the code resolves to.
WithAttribute_any_code(s57, mem) ==
  LET attribute == S57Attribute_from_type_code(attribute_type_code(mem))
      value == AttributeValueOf(mem)
  IN  IF value = None THEN s57
      ELSE set_attribute(s57, attribute, value[1])

\* The feature an Attribute record leaves behind.
WithAttribute(s57, mem) ==
  LET attribute == S57Attribute_from_type_code(attribute_type_code(mem))
      value == AttributeValueOf(mem)
  IN  IF attribute = Unknown \/ value = None THEN s57
      ELSE set_attribute(s57, attribute, value[1])

\* The Vec<f32> built over point_data: point_count floats were read, three
\* times as many are indexed; those past the allocation read g.
PointsOf(b, g) ==
  [j \in 1..(3 * b.point_count) |->
     IF j <= b.point_count THEN b.floats[j] ELSE g]

\* The sounding points of a Multipoint record.
MultipointOf(b, g, origin) ==
  LET points == PointsOf(b, g)
  IN  [i \in 1..b.point_count |->
         [ position |-> from_simple_mercator(points[3 * (i - 1) + 1],
                                             points[3 * (i - 1) + 2], origin),
           value |-> points[3 * (i - 1) + 3] ]]

MultipointOutcome(r) ==
  IF VarOutcome(r) # Running THEN VarOutcome(r)
  ELSE IF r.len - HeaderSize < MultipointHeaderSize THEN ErrEof
  ELSE IF F32Size * r.body.point_count
            > r.len - HeaderSize - MultipointHeaderSize THEN ErrEof
  ELSE Running

\* payload_size - cursor.position() below zero panics at the subtraction or
\* at the allocation that follows; a remainder is refused by assert_eq!.
LineOutcome(r) ==
  IF VarOutcome(r) # Running THEN VarOutcome(r)
  ELSE IF r.len - HeaderSize < LineHeaderSize THEN Panic
  ELSE IF (r.len - HeaderSize - LineHeaderSize) % LineElementSize # 0 THEN Panic
  ELSE Running

\* Payload offset of the vertex count of the i-th triangle primitive.
NvertOffset(b, i) ==
  AreaHeaderSize + b.contour_count * U32Size
    + SumSeq([j \in 1..(i - 1) |-> TriprimSize(b.nverts[j])]) + 1

AreaOutcome(r) ==
  IF VarOutcome(r) # Running THEN VarOutcome(r)
  ELSE IF r.len - HeaderSize < AreaHeaderSize THEN ErrEof
  ELSE IF \E i \in 1..Len(r.body.nverts) :
            NvertOffset(r.body, i) + U32Size > r.len - HeaderSize THEN ErrEof
  ELSE IF AreaEdgeOffset(r.body) > r.len - HeaderSize THEN Panic
  ELSE IF (r.len - HeaderSize - AreaEdgeOffset(r.body)) % LineElementSize # 0
    THEN Panic
  ELSE Running

\* OnCurrent making a feature of what it is given when there is none.
OnCurrent_or_new(s57) ==
  IF current_s57 = 0 THEN Append(s57_vector, s57)
  ELSE [s57_vector EXCEPT ![current_s57] = s57]

\* OnCurrent writing through a cursor left on the first feature.
OnCurrent_first(s57) ==
  IF current_s57 = 0 THEN s57_vector
  ELSE [s57_vector EXCEPT ![1] = s57]

\* s57_vector after `if let Some(ref mut s57) = current_s57 { ... }` has
\* left s57 in place of the current feature.
OnCurrent(s57) ==
  IF current_s57 = 0 THEN s57_vector
  ELSE [s57_vector EXCEPT ![current_s57] = s57]

\* The current feature (any feature value when there is none: OnCurrent
\* then drops what is made of it).
Current ==
  IF current_s57 = 0 THEN S57_from_type_code(Unknown)
  ELSE s57_vector[current_s57]

-----------------------------------------------------------------------------
(* One action per arm of the match in parse_file's loop.                   *)

\* ReadHeaderFails handing the failed read to the caller.
ReadHeaderFails_propagated ==
  /\ result = Running
  /\ reader.open \/ reader.at > Len(reader.recs)
  /\ Return(NoHeader, ErrEof)

\* read_exact of the header fails: the stream holds left < 6 more bytes.
ReadHeaderFails ==
  /\ result = Running
  /\ reader.open \/ reader.at > Len(reader.recs)
  /\ \E left \in {0, HeaderSize - 1} :
       /\ result' = Ok
       /\ last' = NoHeader
       /\ pos' = pos + left
       /\ UNCHANGED <<reader, nread, chart, chain>>

EndMarker ==
  \E r \in Offered(0) : Return(r, Ok)

\* UnrecognizedType refusing the record.
UnrecognizedType_refused ==
  \E t \in UnrecognizedTypes : \E r \in Offered(t) : Return(r, ErrHeader)

UnrecognizedType ==
  \E t \in UnrecognizedTypes : \E r \in Offered(t) : Return(r, Ok)

ServerStatus ==
  \E r \in Offered(SERVER_STATUS_RECORD) :
    IF ServerStatusOutcome(r) # Running THEN Return(r, ServerStatusOutcome(r))
    ELSE Proceed(r, ServerstatSize) /\ UNCHANGED chart

SencVersion ==
  \E r \in Offered(HEADER_SENC_VERSION) :
    IF VersionOutcome(r) # Running THEN Return(r, VersionOutcome(r))
    ELSE Proceed(r, U16Size) /\ UNCHANGED chart

CellName ==
  \E r \in Offered(HEADER_CELL_NAME) :
    IF VarOutcome(r) # Running THEN Return(r, VarOutcome(r))
    ELSE /\ Proceed(r, r.len - HeaderSize)
         /\ name' = TextField(name, r.body)
         /\ UNCHANGED <<extent, publishdate, edition, updatedate, update,
                        nativescale, soundingdatum, features>>

CellPublishDate ==
  \E r \in Offered(HEADER_CELL_PUBLISHDATE) :
    IF VarOutcome(r) # Running THEN Return(r, VarOutcome(r))
    ELSE /\ Proceed(r, r.len - HeaderSize)
         /\ publishdate' = TextField(publishdate, r.body)
         /\ UNCHANGED <<extent, name, edition, updatedate, update,
                        nativescale, soundingdatum, features>>

CellEdition ==
  \E r \in Offered(HEADER_CELL_EDITION) :
    IF FixedOutcome(r, U16Size) # Running THEN Return(r, FixedOutcome(r, U16Size))
    ELSE /\ Proceed(r, U16Size)
         /\ edition' = r.body
         /\ UNCHANGED <<extent, name, publishdate, updatedate, update,
                        nativescale, soundingdatum, features>>

CellUpdateDate ==
  \E r \in Offered(HEADER_CELL_UPDATEDATE) :
    IF VarOutcome(r) # Running THEN Return(r, VarOutcome(r))
    ELSE /\ Proceed(r, r.len - HeaderSize)
         /\ updatedate' = TextField(updatedate, r.body)
         /\ UNCHANGED <<extent, name, publishdate, edition, update,
                        nativescale, soundingdatum, features>>

CellUpdate ==
  \E r \in Offered(HEADER_CELL_UPDATE) :
    IF FixedOutcome(r, U16Size) # Running THEN Return(r, FixedOutcome(r, U16Size))
    ELSE /\ Proceed(r, U16Size)
         /\ update' = r.body
         /\ UNCHANGED <<extent, name, publishdate, edition, updatedate,
                        nativescale, soundingdatum, features>>

CellNativeScale ==
  \E r \in Offered(HEADER_CELL_NATIVESCALE) :
    IF FixedOutcome(r, U32Size) # Running THEN Return(r, FixedOutcome(r, U32Size))
    ELSE /\ Proceed(r, U32Size)
         /\ nativescale' = r.body
         /\ UNCHANGED <<extent, name, publishdate, edition, updatedate,
                        update, soundingdatum, features>>

CellSoundingDatum ==
  \E r \in Offered(HEADER_CELL_SOUNDINGDATUM) :
    IF VarOutcome(r) # Running THEN Return(r, VarOutcome(r))
    ELSE /\ Proceed(r, r.len - HeaderSize)
         /\ soundingdatum' = TextField(soundingdatum, r.body)
         /\ UNCHANGED <<extent, name, publishdate, edition, updatedate,
                        update, nativescale, features>>

\* SkipPayload seeking by the declared length, header included.
SkipPayload_whole_length(r, checked) ==
  IF Underflows(r) /\ checked THEN Return(r, Panic)
  ELSE /\ result' = result
       /\ last' = r
       /\ nread' = nread + 1
       /\ pos' = pos + HeaderSize + r.len
       /\ reader' = IF Underflows(r) THEN AfterSeekBack(r) ELSE After(r)
       /\ UNCHANGED <<chart, chain>>

\* reader.seek(SeekFrom::Current(buf_size as i64)).  With the declared
\* length below the header size the subtraction panics in a build with
\* overflow checks (checked) and wraps in one without: the seek then goes
\* back by 6 - len bytes.  A seek past the end of the stream succeeds.
SkipPayload(r, checked) ==
  IF Underflows(r) /\ checked THEN Return(r, Panic)
  ELSE /\ result' = result
       /\ last' = r
       /\ nread' = nread + 1
       /\ pos' = pos + HeaderSize + (r.len - HeaderSize)
       /\ reader' = IF Underflows(r) THEN AfterSeekBack(r) ELSE After(r)
       /\ UNCHANGED <<chart, chain>>

SencCreateDate ==
  \E r \in Offered(HEADER_CELL_SENCCREATEDATE), checked \in BOOLEAN :
    SkipPayload(r, checked)

CellExtent ==
  \E r \in Offered(CELL_EXTENT_RECORD) :
    IF FixedOutcome(r, ExtentSize) # Running
      THEN Return(r, FixedOutcome(r, ExtentSize))
    ELSE /\ Proceed(r, ExtentSize)
         /\ extent' = ExtentOf(r.body)
         /\ UNCHANGED <<meta, features>>

CellCovr ==
  \E r \in Offered(CELL_COVR_RECORD), checked \in BOOLEAN :
    SkipPayload(r, checked)

CellNoCovr ==
  \E r \in Offered(CELL_NOCOVR_RECORD), checked \in BOOLEAN :
    SkipPayload(r, checked)

\* FeatureId dropping a record whose type code the table does not hold.
FeatureId_known_only ==
  \E r \in Offered(FEATURE_ID_RECORD) :
    IF FixedOutcome(r, FeatureIdSize) # Running
      THEN Return(r, FixedOutcome(r, FeatureIdSize))
    ELSE IF r.body.feature_type_code \notin KnownTypeCodes
      THEN Proceed(r, FeatureIdSize) /\ UNCHANGED chart
    ELSE /\ Proceed(r, FeatureIdSize)
         /\ s57_vector' =
              Append(s57_vector, S57_from_type_code(r.body.feature_type_code))
         /\ current_s57' = Len(s57_vector')
         /\ UNCHANGED <<extent, meta>>

FeatureId ==
  \E r \in Offered(FEATURE_ID_RECORD) :
    IF FixedOutcome(r, FeatureIdSize) # Running
      THEN Return(r, FixedOutcome(r, FeatureIdSize))
    ELSE /\ Proceed(r, FeatureIdSize)
         /\ s57_vector' =
              Append(s57_vector, S57_from_type_code(r.body.feature_type_code))
         /\ current_s57' = Len(s57_vector')
         /\ UNCHANGED <<extent, meta>>

FeatureAttribute ==
  \E r \in Offered(FEATURE_ATTRIBUTE_RECORD), g \in GarbageBytes :
    IF VarOutcome(r) # Running THEN Return(r, VarOutcome(r))
    ELSE /\ Proceed(r, r.len - HeaderSize)
         /\ s57_vector' = OnCurrent(WithAttribute(Current, Memory(r.body, g)))
         /\ UNCHANGED <<extent, meta, current_s57>>

GeometryPoint ==
  \E r \in Offered(FEATURE_GEOMETRY_RECORD_POINT) :
    IF FixedOutcome(r, PointSize) # Running
      THEN Return(r, FixedOutcome(r, PointSize))
    ELSE /\ Proceed(r, PointSize)
         /\ s57_vector' =
              OnCurrent(set_point_geometry(Current,
                                           Position(r.body.lat, r.body.lon)))
         /\ UNCHANGED <<extent, meta, current_s57>>

GeometryArea ==
  \E r \in Offered(FEATURE_GEOMETRY_RECORD_AREA) :
    IF AreaOutcome(r) # Running THEN Return(r, AreaOutcome(r))
    ELSE /\ Proceed(r, r.len - HeaderSize)
         /\ s57_vector' = OnCurrent(set_polygon_geometry(Current, r.body.elements))
         /\ UNCHANGED <<extent, meta, current_s57>>

GeometryAreaExt ==
  \E r \in Offered(FEATURE_GEOMETRY_RECORD_AREA_EXT), checked \in BOOLEAN :
    SkipPayload(r, checked)

GeometryLine ==
  \E r \in Offered(FEATURE_GEOMETRY_RECORD_LINE) :
    IF LineOutcome(r) # Running THEN Return(r, LineOutcome(r))
    ELSE /\ Proceed(r, r.len - HeaderSize)
         /\ s57_vector' = OnCurrent(set_line_geometry(Current, r.body.elements))
         /\ UNCHANGED <<extent, meta, current_s57>>

\* GeometryMultipoint projecting about the midpoint of the default extent.
GeometryMultipoint_default_origin ==
  \E r \in Offered(FEATURE_GEOMETRY_RECORD_MULTIPOINT), g \in GarbageFloats :
    IF MultipointOutcome(r) # Running THEN Return(r, MultipointOutcome(r))
    ELSE /\ Proceed(r, r.len - HeaderSize)
         /\ s57_vector' =
              OnCurrent(set_multi_point_geometry(Current,
                          MultipointOf(r.body, g, Rect_center(DefaultExtent))))
         /\ UNCHANGED <<extent, meta, current_s57>>

GeometryMultipoint ==
  \E r \in Offered(FEATURE_GEOMETRY_RECORD_MULTIPOINT), g \in GarbageFloats :
    IF MultipointOutcome(r) # Running THEN Return(r, MultipointOutcome(r))
    ELSE /\ Proceed(r, r.len - HeaderSize)
         /\ s57_vector' =
              OnCurrent(set_multi_point_geometry(Current,
                          MultipointOf(r.body, g, Rect_center(extent))))
         /\ UNCHANGED <<extent, meta, current_s57>>

EdgeNodeTable ==
  \E r \in Offered(VECTOR_EDGE_NODE_TABLE_RECORD), checked \in BOOLEAN :
    SkipPayload(r, checked)

EdgeNodeTableExt ==
  \E r \in Offered(VECTOR_EDGE_NODE_TABLE_EXT_RECORD), checked \in BOOLEAN :
    SkipPayload(r, checked)

ConnectedNodeTable ==
  \E r \in Offered(VECTOR_CONNECTED_NODE_TABLE_RECORD), checked \in BOOLEAN :
    SkipPayload(r, checked)

ConnectedNodeTableExt ==
  \E r \in Offered(VECTOR_CONNECTED_NODE_TABLE_EXT_RECORD), checked \in BOOLEAN :
    SkipPayload(r, checked)

TxtDscInfoFile ==
  \E r \in Offered(CELL_TXTDSC_INFO_FILE_RECORD), checked \in BOOLEAN :
    SkipPayload(r, checked)

Next ==
  \/ ReadHeaderFails
  \/ EndMarker
  \/ UnrecognizedType
  \/ ServerStatus
  \/ SencVersion
  \/ CellName
  \/ CellPublishDate
  \/ CellEdition
  \/ CellUpdateDate
  \/ CellUpdate
  \/ CellNativeScale
  \/ CellSoundingDatum
  \/ SencCreateDate
  \/ CellExtent
  \/ CellCovr
  \/ CellNoCovr
  \/ FeatureId
  \/ FeatureAttribute
  \/ GeometryPoint
  \/ GeometryArea
  \/ GeometryAreaExt
  \/ GeometryLine
  \/ GeometryMultipoint
  \/ EdgeNodeTable
  \/ EdgeNodeTableExt
  \/ ConnectedNodeTable
  \/ ConnectedNodeTableExt
  \/ TxtDscInfoFile

Spec == Init /\ [][Next]_vars

-----------------------------------------------------------------------------
(* The round-trip streams: Version, Cell name, Extent, one Feature         *)
(* identification and one Point geometry, every record well formed.        *)

RoundTripStreams ==
  { << Rec(HEADER_SENC_VERSION, HeaderSize + U16Size, FALSE, v),
       Rec(HEADER_CELL_NAME, HeaderSize + Len(s), FALSE, s),
       Rec(CELL_EXTENT_RECORD, HeaderSize + ExtentSize, FALSE, e),
       Rec(FEATURE_ID_RECORD, HeaderSize + FeatureIdSize, FALSE, FeatureIdBody(t)),
       Rec(FEATURE_GEOMETRY_RECORD_POINT, HeaderSize + PointSize, FALSE, p) >> :
      v \in {x \in Versions : x >= MinVersion},
      s \in {b \in TextPayloads : Utf8Valid(b)},
      e \in ExtentBodies, t \in FeatureTypeCodes, p \in PointBodies }

InitRoundTrip ==
  /\ reader \in { Stream(recs) : recs \in RoundTripStreams }
  /\ InitParser
  /\ ChainIdle

NextRoundTrip ==
  \/ ReadHeaderFails
  \/ SencVersion
  \/ CellName
  \/ CellExtent
  \/ FeatureId
  \/ GeometryPoint

SpecRoundTrip == InitRoundTrip /\ [][NextRoundTrip]_vars

-----------------------------------------------------------------------------
(* The attribute streams: one Feature identification, then MaxRecords      *)
(* Attribute records whose payload the stream holds.                       *)

AttributeStreams ==
  { << Rec(FEATURE_ID_RECORD, HeaderSize + FeatureIdSize, FALSE,
           FeatureIdBody(42)) >> \o q :
      q \in [1..MaxRecords ->
               { Rec(FEATURE_ATTRIBUTE_RECORD, HeaderSize + Len(b), FALSE, b) :
                   b \in AttributePayloads }] }

InitAttributes ==
  /\ reader \in { Stream(recs) : recs \in AttributeStreams }
  /\ InitParser
  /\ ChainIdle

NextAttributes ==
  \/ ReadHeaderFails
  \/ FeatureId
  \/ FeatureAttribute

SpecAttributes == InitAttributes /\ [][NextAttributes]_vars

-----------------------------------------------------------------------------
(* S57::build_geometries, the chaining pass (s57.rs:196-225).              *)

\* Index of the first chain the inner loop connects element to, 0 for none.
ConnectsTo(chains, element) ==
  LET hits == { k \in 1..Len(chains) :
                  \/ element.start_connected_node
                       = chains[k][Len(chains[k])].end_connected_node
                  \/ element.end_connected_node
                       = chains[k][1].start_connected_node }
  IN  IF hits = {} THEN 0 ELSE CHOOSE k \in hits : \A j \in hits : k <= j

\* ChainWith looking for an append match in every chain before it looks
\* for a prepend match.
ChainWith_append_first(chains, element) ==
  LET ends == { k \in 1..Len(chains) :
                  element.start_connected_node
                    = chains[k][Len(chains[k])].end_connected_node }
      starts == { k \in 1..Len(chains) :
                    element.end_connected_node
                      = chains[k][1].start_connected_node }
      first(S) == CHOOSE k \in S : \A j \in S : k <= j
  IN  IF ends # {} THEN [chains EXCEPT ![first(ends)] = Append(@, element)]
      ELSE IF starts # {}
        THEN [chains EXCEPT ![first(starts)] = <<element>> \o @]
      ELSE Append(chains, <<element>>)

\* ChainWith without the prepend test.
ChainWith_append_only(chains, element) ==
  LET ends == { k \in 1..Len(chains) :
                  element.start_connected_node
                    = chains[k][Len(chains[k])].end_connected_node }
  IN  IF ends = {} THEN Append(chains, <<element>>)
      ELSE [chains EXCEPT ![CHOOSE k \in ends : \A j \in ends : k <= j]
                            = Append(@, element)]

\* ChainWith putting a tuple that matches the front of a chain behind the
\* chain's first tuple.
ChainWith_insert_second(chains, element) ==
  LET k == ConnectsTo(chains, element)
  IN  IF k = 0 THEN Append(chains, <<element>>)
      ELSE IF element.start_connected_node
                = chains[k][Len(chains[k])].end_connected_node
        THEN [chains EXCEPT ![k] = Append(@, element)]
      ELSE [chains EXCEPT ![k] = <<Head(@), element>> \o Tail(@)]

\* ChainWith pushing at the end of the chain on either kind of match.
ChainWith_push_only(chains, element) ==
  LET k == ConnectsTo(chains, element)
  IN  IF k = 0 THEN Append(chains, <<element>>)
      ELSE [chains EXCEPT ![k] = Append(@, element)]

\* line_strings after one iteration of the loop over line_elements.
ChainWith(chains, element) ==
  LET k == ConnectsTo(chains, element)
  IN  IF k = 0 THEN Append(chains, <<element>>)
      ELSE IF element.start_connected_node
                = chains[k][Len(chains[k])].end_connected_node
        THEN [chains EXCEPT ![k] = Append(@, element)]
      ELSE [chains EXCEPT ![k] = <<element>> \o @]

\* The tuples the chaining pass is tried on: A, B, C of the edge-stitching
\* scenario, one that closes the ring of A and B, and one that leads from
\* C to A.
ChainTuples ==
  { LineElement(1, 0, 2, Forward), LineElement(2, 7, 3, Reverse),
    LineElement(5, 8, 6, Forward), LineElement(3, 0, 1, Forward),
    LineElement(6, 0, 1, Forward) }

ChainInputs ==
  UNION { [1..n -> ChainTuples] : n \in 0..MaxElements }

\* The node tables the pass is tried with: none of the nodes, all of
\* them, all but node 2.
ConnectedNodeTables ==
  { [n \in D |-> Position(n, 10 * n)] : D \in {{}, {1, 2, 3, 5, 6}, {1, 3, 5, 6}} }

\* The edge tables the pass is tried with: no edge, edges 7 and 8 and an
\* entry under id 0, edge 8 alone.
VectorEdgeTables ==
  { [e \in D |-> <<Position(e, 1), Position(e, 2)>>] :
      D \in {{}, {0, 7, 8}, {8}} }

Reversed(positions) ==
  [i \in 1..Len(positions) |-> positions[Len(positions) + 1 - i]]

\* ElementPositions taking the edge's positions in stored order whatever
\* the direction.
ElementPositions_stored_order(element, edges, nodes) ==
  (IF element.start_connected_node \in DOMAIN nodes
     THEN <<nodes[element.start_connected_node]>> ELSE <<>>)
  \o (IF element.edge_vector # 0 /\ element.edge_vector \in DOMAIN edges
        THEN edges[element.edge_vector] ELSE <<>>)

\* What one tuple of a chain adds to the chain's geometry.
ElementPositions(element, edges, nodes) ==
  (IF element.start_connected_node \in DOMAIN nodes
     THEN <<nodes[element.start_connected_node]>> ELSE <<>>)
  \o (IF element.edge_vector # 0 /\ element.edge_vector \in DOMAIN edges
        THEN IF element.direction = Reverse
               THEN Reversed(edges[element.edge_vector])
               ELSE edges[element.edge_vector]
        ELSE <<>>)

RECURSIVE ChainPositions(_, _, _)
\* The inner loop over the tuples of one chain.
ChainPositions(line_string, edges, nodes) ==
  IF line_string = <<>> THEN <<>>
  ELSE ElementPositions(Head(line_string), edges, nodes)
         \o ChainPositions(Tail(line_string), edges, nodes)

\* The geometry of one chain: its tuples' positions, then the end node of
\* its last tuple.
GeometryOf(line_string, edges, nodes) ==
  LET end_node == line_string[Len(line_string)].end_connected_node
  IN  ChainPositions(line_string, edges, nodes)
        \o (IF end_node \in DOMAIN nodes THEN <<nodes[end_node]>> ELSE <<>>)

InitChain ==
  /\ reader = Stream(<<>>)
  /\ InitParser
  /\ line_elements \in ChainInputs
  /\ consumed = 0
  /\ line_strings = <<>>
  /\ vector_edges \in VectorEdgeTables
  /\ connected_nodes \in ConnectedNodeTables
  /\ geometries = <<>>
  /\ built = FALSE

\* One iteration of the loop over line_elements.
ChainStep ==
  /\ consumed < Len(line_elements)
  /\ line_strings' = ChainWith(line_strings, line_elements[consumed + 1])
  /\ consumed' = consumed + 1
  /\ UNCHANGED <<reader, nread, pos, result, last, chart, line_elements,
                 vector_edges, connected_nodes, geometries, built>>

\* The loop over line_strings, after the loop over line_elements.
BuildGeometries ==
  /\ consumed = Len(line_elements)
  /\ ~built
  /\ geometries' = [k \in 1..Len(line_strings) |->
                      GeometryOf(line_strings[k], vector_edges,
                                 connected_nodes)]
  /\ built' = TRUE
  /\ UNCHANGED <<reader, nread, pos, result, last, chart, line_elements,
                 consumed, line_strings, vector_edges, connected_nodes>>

NextChain == ChainStep \/ BuildGeometries

SpecChain == InitChain /\ [][NextChain]_vars

-----------------------------------------------------------------------------
(* Claims.  Under Spec every step reads one header (or fails to) and sets  *)
(* last, so last' names the record a step is about.                        *)

FeatureRecordTypes ==
  { FEATURE_ATTRIBUTE_RECORD, FEATURE_GEOMETRY_RECORD_POINT,
    FEATURE_GEOMETRY_RECORD_LINE, FEATURE_GEOMETRY_RECORD_AREA,
    FEATURE_GEOMETRY_RECORD_MULTIPOINT }

\* C1: a processed Feature-Identification record appends exactly one
\* feature at the end of the sequence and makes it the current one; an
\* Attribute or Point/Line/Area/Multipoint record leaves the count alone,
\* works on the newest feature and changes no feature before it; a
\* processed Point record shows on that newest feature.
C1_FeatureCursor ==
  [][ /\ (last'.type = FEATURE_ID_RECORD /\ result' = Running) =>
           /\ Len(s57_vector') = Len(s57_vector) + 1
           /\ SubSeq(s57_vector', 1, Len(s57_vector)) = s57_vector
           /\ current_s57' = Len(s57_vector')
      /\ (last'.type \in FeatureRecordTypes) =>
           /\ Len(s57_vector') = Len(s57_vector)
           /\ current_s57 = Len(s57_vector)
           /\ current_s57' = current_s57
           /\ \A i \in 1..(Len(s57_vector) - 1) : s57_vector'[i] = s57_vector[i]
      /\ ( /\ last'.type = FEATURE_GEOMETRY_RECORD_POINT
           /\ result' = Running
           /\ s57_vector # <<>> ) =>
           s57_vector'[Len(s57_vector)].point_geometry
             = Some(Position(last'.body.lat, last'.body.lon))
    ]_vars

\* Two features, the second given a point after the first was left behind.
C1_Witness ==
  /\ Len(s57_vector) = 2
  /\ last.type = FEATURE_GEOMETRY_RECORD_POINT
  /\ s57_vector[1].point_geometry = None
  /\ s57_vector[2].point_geometry # None

\* C2: a header whose type is neither 0 nor recognized ends the call with
\* Ok and the chart as the records before it left it; nothing is read after
\* the call has ended.
C2_UnrecognizedStops ==
  [][ /\ result = Running
      /\ (last'.type \notin RecognizedTypes \cup {0, NoHeader.type}) =>
           /\ result' = Ok
           /\ chart' = chart
           /\ reader' = reader
    ]_vars

\* Ok on an unrecognized header that follows a feature and a cell name.
C2_Witness ==
  /\ result = Ok
  /\ last.type \in UnrecognizedTypes
  /\ s57_vector # <<>>
  /\ name # <<>>

\* C3: a failed header read and a header of type 0 both end the call with
\* Ok and the chart accumulated so far; when that is the first thing to
\* happen the chart is the empty one.
C3_EndOfData ==
  [][ (last'.type \in {0, NoHeader.type}) =>
        /\ result' = Ok
        /\ chart' = chart
        /\ nread = 0 =>
             /\ s57_vector' = <<>>
             /\ name' = <<>> /\ publishdate' = <<>>
             /\ updatedate' = <<>> /\ soundingdatum' = <<>>
             /\ edition' = 0 /\ update' = 0 /\ nativescale' = 0
             /\ extent' = [ top_left |-> [lat |-> 0, lon |-> 0],
                            bottom_right |-> [lat |-> 0, lon |-> 0] ]
    ]_vars

\* The stream ends five bytes into a header, after a feature with a point.
C3_Witness ==
  /\ result = Ok
  /\ last = NoHeader
  /\ pos = (HeaderSize + FeatureIdSize) + (HeaderSize + PointSize)
             + (HeaderSize - 1)
  /\ Len(s57_vector) = 1
  /\ s57_vector[1].point_geometry # None

\* A Version record of the Version layout whose payload the stream holds.
IsVersionRecord(r) ==
  /\ r.type = HEADER_SENC_VERSION
  /\ r.len = HeaderSize + U16Size
  /\ ~r.short

\* C4: the call ends with 'Unsupported Version' only on a Version record
\* declaring a version below 201, never on one declaring 201 or more, and
\* always on a Version record declaring less.
C4_VersionGate ==
  /\ result = ErrVersion =>
       (last.type = HEADER_SENC_VERSION /\ last.body < 201)
  /\ (IsVersionRecord(last) /\ last.body >= 201) => result = Running
  /\ (IsVersionRecord(last) /\ last.body < 201) => result = ErrVersion

\* Version 200 refused after another record was read.
C4_Witness ==
  /\ result = ErrVersion
  /\ last.body = 200
  /\ nread > 0

\* A Server-status record of its layout whose payload the stream holds.
IsServerStatusRecord(r) ==
  /\ r.type = SERVER_STATUS_RECORD
  /\ r.len = HeaderSize + ServerstatSize
  /\ ~r.short

\* C5: a processed Server-status record ends the call with 'Chart expired'
\* when expire_status is 0, with 'Signature failure' when expire_status is
\* not 0 and decrypt_status is 0, and lets the loop go on otherwise.
C5_ServerStatus ==
  IsServerStatusRecord(last) =>
    /\ last.body.expire_status = 0 => result = ErrExpired
    /\ (last.body.expire_status # 0 /\ last.body.decrypt_status = 0) =>
         result = ErrSignature
    /\ (last.body.expire_status # 0 /\ last.body.decrypt_status # 0) =>
         result = Running

\* Both flags 0: the expiry is what is reported.
C5_Witness ==
  /\ IsServerStatusRecord(last)
  /\ last.body.expire_status = 0
  /\ last.body.decrypt_status = 0
  /\ result = ErrExpired

\* The attribute an Attribute payload names.
CodeOf(b) == S57Attribute_from_type_code(attribute_type_code(b))

\* The payload names a known attribute and holds a value that does not
\* depend on what lies outside the payload buffer.
Carries(b) ==
  /\ CodeOf(b) # Unknown
  /\ \A g \in GarbageBytes :
       /\ AttributeValueOf(Memory(b, g)) # None
       /\ \A h \in GarbageBytes :
            AttributeValueOf(Memory(b, g)) = AttributeValueOf(Memory(b, h))

ValueOf(b) ==
  AttributeValueOf(Memory(b, CHOOSE g \in GarbageBytes : TRUE))[1]

\* C6: at every point of an attribute stream the feature's mapping holds,
\* for each known code, one entry: the value of the last value-carrying
\* record of that code, whatever records of the same code came before it
\* and whatever records of other codes came after it; it holds no entry for
\* a code no record named.
C6_LastValueWins ==
  s57_vector # <<>> =>
    LET attrs == s57_vector[1].attributes
        done == 2..(reader.at - 1)
        b(i) == reader.recs[i].body
    IN  /\ \A j \in done :
             ( /\ Carries(b(j))
               /\ \A k \in done : k > j => CodeOf(b(k)) # CodeOf(b(j)) ) =>
               /\ CodeOf(b(j)) \in DOMAIN attrs
               /\ attrs[CodeOf(b(j))] = ValueOf(b(j))
        /\ DOMAIN attrs \subseteq { CodeOf(b(i)) : i \in done } \ {Unknown}

\* BCNSHP 7, then AGENCY 7, then AGENCY 513: AGENCY ends as 513 and BCNSHP
\* is still 7.
C6_Witness ==
  /\ result = Ok
  /\ reader.recs[2].body = <<2, 0, 0, 7, 0, 0, 0>>
  /\ reader.recs[3].body = <<1, 0, 0, 7, 0, 0, 0>>
  /\ reader.recs[4].body = <<1, 0, 0, 1, 2, 0, 0>>
  /\ DOMAIN s57_vector[1].attributes = {1, 2}
  /\ s57_vector[1].attributes[1] = UInt32(513)
  /\ s57_vector[1].attributes[2] = UInt32(7)

\* C7: a stream of a Version record (>= 201), a Cell-name record of UTF-8
\* text s, an Extent record, a Feature-Identification record of type code t
\* and a Point record (lat, lon) never ends in an error, and ends with
\* name = s, the extent's top-left at the record's north-west corner and its
\* bottom-right at the south-east corner, and one feature of the table's
\* type for t with the point (lat, lon).
C7_RoundTrip ==
  /\ result \in {Running, Ok}
  /\ result = Ok =>
       /\ reader.at = Len(reader.recs) + 1
       /\ name = reader.recs[2].body
       /\ extent.top_left.lat = reader.recs[3].body.extent_nw_lat
       /\ extent.top_left.lon = reader.recs[3].body.extent_nw_lon
       /\ extent.bottom_right.lat = reader.recs[3].body.extent_se_lat
       /\ extent.bottom_right.lon = reader.recs[3].body.extent_se_lon
       /\ Len(s57_vector) = 1
       /\ s57_vector[1].s57_type
            = S57Type_from_type_code(reader.recs[4].body.feature_type_code)
       /\ s57_vector[1].point_geometry
            = Some(Position(reader.recs[5].body.lat, reader.recs[5].body.lon))

\* The stream of the round-trip scenario, decoded: "TEST", nw = (10, 10),
\* se = (0, 20), type 42, point (5, 15).
C7_Witness ==
  /\ result = Ok
  /\ reader.recs[1].body = 201
  /\ name = <<84, 69, 83, 84>>
  /\ extent = [ top_left |-> [lat |-> 10, lon |-> 10],
                bottom_right |-> [lat |-> 0, lon |-> 20] ]
  /\ Len(s57_vector) = 1
  /\ s57_vector[1].s57_type = 42
  /\ s57_vector[1].point_geometry = <<[lat |-> 5, lon |-> 15]>>

TupleA == LineElement(1, 0, 2, Forward)
TupleB == LineElement(2, 7, 3, Reverse)
TupleC == LineElement(5, 8, 6, Forward)

\* The six orders of A, B, C.
OrdersOfABC ==
  { q \in [1..3 -> {TupleA, TupleB, TupleC}] :
      { q[i] : i \in 1..3 } = {TupleA, TupleB, TupleC} }

\* C8: once the chaining pass has taken every tuple of any order of A, B,
\* C, there are exactly two chains, [A, B] and [C].
C8_ChainsOfABC ==
  (line_elements \in OrdersOfABC /\ consumed = Len(line_elements)) =>
    /\ Len(line_strings) = 2
    /\ { line_strings[1], line_strings[2] }
         = { <<TupleA, TupleB>>, <<TupleC>> }

\* The order C, B, A: A is put in front of B.
C8_Witness ==
  /\ line_elements = <<TupleC, TupleB, TupleA>>
  /\ consumed = 3
  /\ line_strings = << <<TupleC>>, <<TupleA, TupleB>> >>

\* A Multipoint record of the layout: header, then point_count x 3 floats.
IsMultipointRecord(r) ==
  /\ r.type = FEATURE_GEOMETRY_RECORD_MULTIPOINT
  /\ ~r.short
  /\ Len(r.body.floats) = 3 * r.body.point_count
  /\ r.len = HeaderSize + MultipointHeaderSize + F32Size * Len(r.body.floats)

\* C9: after a Multipoint record of point count n the current feature
\* holds n sounding points, the i-th made of payload floats 3i, 3i+1 and
\* 3i+2, its depth being float 3i+2.
C9_SoundingsFromPayload ==
  ( /\ IsMultipointRecord(last)
    /\ result = Running
    /\ s57_vector # <<>> ) =>
    LET mp == s57_vector[Len(s57_vector)].multi_point_geometry
        f == last.body.floats
    IN  /\ Len(mp) = last.body.point_count
        /\ \A i \in 1..Len(mp) :
             /\ mp[i].value = f[3 * (i - 1) + 3]
             /\ mp[i].position.easting = f[3 * (i - 1) + 1]
             /\ mp[i].position.northing = f[3 * (i - 1) + 2]

\* The geometry kinds a feature holds.
KindsHeld(s57) ==
  { k \in {"point", "multipoint", "line", "polygon"} :
      \/ k = "point" /\ s57.point_geometry # None
      \/ k = "multipoint" /\ s57.multi_point_geometry # <<>>
      \/ k = "line" /\ (s57.line_elements # <<>> \/ s57.lines # <<>>)
      \/ k = "polygon"
           /\ (s57.polygon_line_elements # <<>> \/ s57.polygons # <<>>) }

\* C10 as stated: no feature ever holds two geometry kinds.
C10_OneKindOnly ==
  \A i \in 1..Len(s57_vector) : Cardinality(KindsHeld(s57_vector[i])) <= 1

\* C10: the four geometry fields of a feature are independent: a record
\* changes at most the field of its own kind, on any feature, and leaves
\* the three others as they were, so a Point record takes no kind away
\* from a feature and a feature given records of several kinds holds them
\* together.
C10_IndependentSlots ==
  [][ \A i \in 1..Len(s57_vector) :
        /\ i <= Len(s57_vector')
        /\ last'.type # FEATURE_GEOMETRY_RECORD_POINT =>
             s57_vector'[i].point_geometry = s57_vector[i].point_geometry
        /\ last'.type # FEATURE_GEOMETRY_RECORD_MULTIPOINT =>
             s57_vector'[i].multi_point_geometry
               = s57_vector[i].multi_point_geometry
        /\ last'.type # FEATURE_GEOMETRY_RECORD_LINE =>
             s57_vector'[i].line_elements = s57_vector[i].line_elements
        /\ last'.type # FEATURE_GEOMETRY_RECORD_AREA =>
             s57_vector'[i].polygon_line_elements
               = s57_vector[i].polygon_line_elements
        /\ s57_vector'[i].lines = <<>>
        /\ s57_vector'[i].polygons = <<>>
        /\ last'.type = FEATURE_GEOMETRY_RECORD_POINT =>
             KindsHeld(s57_vector[i]) \subseteq KindsHeld(s57_vector'[i])
    ]_vars

\* One feature given line edges and then a point: it holds both.
C10_Witness ==
  /\ Len(s57_vector) = 1
  /\ last.type = FEATURE_GEOMETRY_RECORD_POINT
  /\ KindsHeld(s57_vector[1]) = {"point", "line"}

GeometryRecordTypes ==
  { FEATURE_GEOMETRY_RECORD_POINT, FEATURE_GEOMETRY_RECORD_LINE,
    FEATURE_GEOMETRY_RECORD_AREA, FEATURE_GEOMETRY_RECORD_MULTIPOINT }

\* The geometry field a record of type t does not write.
KeepsField(t, field) ==
  CASE field = "point_geometry" -> t # FEATURE_GEOMETRY_RECORD_POINT
    [] field = "multi_point_geometry" -> t # FEATURE_GEOMETRY_RECORD_MULTIPOINT
    [] field = "line_elements" -> t # FEATURE_GEOMETRY_RECORD_LINE
    [] field = "polygon_line_elements" -> t # FEATURE_GEOMETRY_RECORD_AREA
    [] OTHER -> TRUE

\* C11: a Point, Multipoint, Line or Area record leaves, on every feature,
\* the feature type, the attribute mapping and every geometry field of
\* another kind as they were; processed, it puts its own value in the field
\* of its kind on the current feature.
C11_GeometryFrame ==
  [][ last'.type \in GeometryRecordTypes =>
        /\ Len(s57_vector') = Len(s57_vector)
        /\ \A i \in 1..Len(s57_vector) :
             \A field \in DOMAIN s57_vector[i] :
               KeepsField(last'.type, field) =>
                 s57_vector'[i][field] = s57_vector[i][field]
        /\ (result' = Running /\ current_s57 # 0) =>
             LET new == s57_vector'[current_s57]
             IN  CASE last'.type = FEATURE_GEOMETRY_RECORD_LINE ->
                        new.line_elements = last'.body.elements
                   [] last'.type = FEATURE_GEOMETRY_RECORD_AREA ->
                        new.polygon_line_elements = last'.body.elements
                   [] last'.type = FEATURE_GEOMETRY_RECORD_POINT ->
                        new.point_geometry
                          = Some(Position(last'.body.lat, last'.body.lon))
                   [] OTHER ->
                        Len(new.multi_point_geometry) = last'.body.point_count
    ]_vars

\* A feature holding line edges is given an Area record with edges of its
\* own: the line edges are still there.
C11_Witness ==
  /\ Len(s57_vector) = 1
  /\ last.type = FEATURE_GEOMETRY_RECORD_AREA
  /\ s57_vector[1].polygon_line_elements = last.body.elements
  /\ s57_vector[1].line_elements # <<>>
  /\ s57_vector[1].line_elements # s57_vector[1].polygon_line_elements

\* The payload size of the fixed layout of a record type.
FixedSizeOf(t) ==
  CASE t = HEADER_SENC_VERSION -> U16Size
    [] t = SERVER_STATUS_RECORD -> ServerstatSize
    [] t = HEADER_CELL_EDITION -> U16Size
    [] t = HEADER_CELL_UPDATE -> U16Size
    [] t = HEADER_CELL_NATIVESCALE -> U32Size
    [] t = CELL_EXTENT_RECORD -> ExtentSize
    [] t = FEATURE_ID_RECORD -> FeatureIdSize
    [] t = FEATURE_GEOMETRY_RECORD_POINT -> PointSize

FixedSizeTypes ==
  { HEADER_SENC_VERSION, SERVER_STATUS_RECORD, HEADER_CELL_EDITION,
    HEADER_CELL_UPDATE, HEADER_CELL_NATIVESCALE, CELL_EXTENT_RECORD,
    FEATURE_ID_RECORD, FEATURE_GEOMETRY_RECORD_POINT }

\* C12: a record of a fixed layout whose declared payload size is not the
\* size of its layout ends the call with an error value: not with a panic,
\* not with Ok, and the loop does not go on.
C12_SizeMismatchIsError ==
  ( /\ last.type \in FixedSizeTypes
    /\ last.len >= HeaderSize
    /\ last.len - HeaderSize # FixedSizeOf(last.type) ) =>
    result \in ErrResults

\* C13: when the loop goes on after a record of declared length L >= 6
\* whose header was read at offset p, the next header is read at p + L,
\* whether the record was decoded, discarded or skipped.
C13_NextHeaderOffset ==
  [][ (result' = Running /\ last'.len >= HeaderSize) =>
        pos' = pos + last'.len
    ]_vars

\* An Attribute record of code 30, discarded, after a Feature
\* identification: the next header is at 11 + 13.
C13_Witness ==
  /\ result = Running
  /\ last.type = FEATURE_ATTRIBUTE_RECORD
  /\ last.body = <<30, 0, 0, 7, 0, 0, 0>>
  /\ Len(s57_vector) = 1
  /\ nread = 2
  /\ pos = (HeaderSize + FeatureIdSize) + (HeaderSize + 7)

\* C14: once the header of a recognized record has been read whose
\* payload the stream does not hold in full, the call does not end with a
\* ChartFile.
C14_ShortPayloadIsError ==
  [][ (last.type \in RecognizedTypes /\ last.short) => result' # Ok ]_vars

\* What C15 asks of a Version record r whose declared size is size.
VersionRangeRule(r, size) ==
  IF size >= HeaderSize /\ size < VersionLenLimit
    THEN result \in {Running, ErrVersion}
         /\ (result = ErrVersion <=> r.body < MinVersion)
    ELSE result = ErrHeader

\* C15: a Version record whose payload the stream holds is accepted and
\* its version compared with 201 exactly when its declared size is in
\* [6, 16), and is refused with the header error otherwise.  The declared
\* size is taken either as the payload size or as the record length,
\* whichever suits the state.
C15_VersionSizeRange ==
  (last.type = HEADER_SENC_VERSION /\ ~last.short) =>
    \/ VersionRangeRule(last, last.len - HeaderSize)
    \/ VersionRangeRule(last, last.len)

\* The metadata field a text record of type t is stored in.
TextFieldOf(t) ==
  CASE t = HEADER_CELL_NAME -> name
    [] t = HEADER_CELL_PUBLISHDATE -> publishdate
    [] t = HEADER_CELL_UPDATEDATE -> updatedate
    [] t = HEADER_CELL_SOUNDINGDATUM -> soundingdatum

\* A text record whose payload the stream holds and which is not UTF-8.
IsUndecodableText(r) ==
  /\ r.type \in TextTypes
  /\ r.len >= HeaderSize
  /\ ~r.short
  /\ ~Utf8Valid(r.body)

\* C16 as stated: after a text record whose payload is not UTF-8 the loop
\* goes on and the record's field is empty.
C16_UndecodableTextEmpties ==
  IsUndecodableText(last) =>
    (result = Running /\ TextFieldOf(last.type) = <<>>)

\* C16: after a text record whose payload is not UTF-8 the loop goes on
\* and the chart is as it was before the record: the record's field keeps
\* what an earlier record of the kind stored, and is empty only when none
\* did.
C16_UndecodableTextKeeps ==
  [][ IsUndecodableText(last') => (result' = Running /\ chart' = chart) ]_vars

\* "TEST" stored by a Cell-name record is still the name after a second
\* Cell-name record that is not UTF-8.
C16_Witness ==
  /\ IsUndecodableText(last)
  /\ last.type = HEADER_CELL_NAME
  /\ result = Running
  /\ name = <<84, 69, 83, 84>>

\* An Attribute record whose payload the stream holds, code included.
IsAttributeRecord(r) ==
  /\ r.type = FEATURE_ATTRIBUTE_RECORD
  /\ r.len >= HeaderSize
  /\ ~r.short
  /\ Len(r.body) >= U16Size

\* C17: an Attribute record whose code is not in the attribute table
\* changes nothing of the chart, on no feature, whatever value type and
\* bytes it carries; its payload is consumed and the loop goes on.
C17_UnknownCodeDiscarded ==
  [][ (IsAttributeRecord(last') /\ CodeOf(last'.body) = Unknown) =>
        /\ result' = Running
        /\ chart' = chart
        /\ pos' = pos + last'.len
        /\ nread' = nread + 1
    ]_vars

\* AGENCY 7 is all the feature holds after a text value of code 0 came
\* for it.
C17_Witness ==
  /\ result = Running
  /\ IsAttributeRecord(last)
  /\ last.body = <<0, 0, 4, 65, 0>>
  /\ Len(s57_vector) = 1
  /\ s57_vector[1].attributes = MapInsert(EmptyMap, 1, UInt32(7))

\* C18: an Attribute record of a known code whose value type is none of
\* 0, 2 and 4 changes nothing of the chart: the attribute mapping of the
\* current feature is as before, a value stored under the code included,
\* and the loop goes on.
C18_OtherValueTypeStoresNothing ==
  [][ ( /\ IsAttributeRecord(last')
        /\ Len(last'.body) > U16Size
        /\ CodeOf(last'.body) # Unknown
        /\ attribute_value_type(last'.body) \notin {0, 2, 4} ) =>
        /\ result' = Running
        /\ chart' = chart
    ]_vars

\* AGENCY is still 7 after an AGENCY record of value type 1.
C18_Witness ==
  /\ result = Running
  /\ IsAttributeRecord(last)
  /\ last.body = <<1, 0, 1, 5, 0, 0, 0>>
  /\ Len(s57_vector) = 1
  /\ s57_vector[1].attributes = MapInsert(EmptyMap, 1, UInt32(7))
  /\ nread = 3

\* The text of a payload as C19 has it: from offset 3 to the first zero
\* byte of the payload, or to the payload's end.
TextWithinPayload(b) == UntilNul(SubSeq(b, StringOffset + 1, Len(b)))

\* C19: after an Attribute record of a known code and value type 4, the
\* text stored under the code on the current feature is the payload's bytes
\* from offset 3 to its first zero byte or to its end, and holds no byte
\* from outside the payload.
C19_TextWithinPayload ==
  ( /\ IsAttributeRecord(last)
    /\ Len(last.body) > U16Size
    /\ CodeOf(last.body) # Unknown
    /\ attribute_value_type(last.body) = 4
    /\ Utf8Valid(TextWithinPayload(last.body))
    /\ result = Running
    /\ current_s57 # 0 ) =>
    LET attrs == s57_vector[current_s57].attributes
    IN  /\ CodeOf(last.body) \in DOMAIN attrs
        /\ attrs[CodeOf(last.body)] = String(TextWithinPayload(last.body))

\* A Line record whose payload the stream holds, header included.
IsLineRecord(r) ==
  /\ r.type = FEATURE_GEOMETRY_RECORD_LINE
  /\ ~r.short
  /\ r.len - HeaderSize >= LineHeaderSize

\* C20: after a Line record of payload size P the current feature's line
\* elements are the (P - 36) / 16 tuples that follow the header, in stream
\* order; when P - 36 is not a multiple of 16 the call ends with an error
\* value.
C20_LineElementsStored ==
  IsLineRecord(last) =>
    LET rest == last.len - HeaderSize - LineHeaderSize
    IN  IF rest % LineElementSize = 0
          THEN /\ result = Running
               /\ current_s57 # 0 =>
                    /\ s57_vector[current_s57].line_elements
                         = last.body.elements
                    /\ Len(s57_vector[current_s57].line_elements)
                         = rest \div LineElementSize
          ELSE result \in ErrResults

\* The offset C21 gives for the edge tuples of an Area payload.
ClaimedEdgeOffset(b) ==
  44 + 4 * b.contour_count
    + SumSeq([i \in 1..Len(b.nverts) |-> 1 + 4 + 32 + 8 * b.nverts[i]])

\* An Area record whose payload the stream holds, up to the edge tuples at
\* least.
IsAreaRecord(r) ==
  /\ r.type = FEATURE_GEOMETRY_RECORD_AREA
  /\ ~r.short
  /\ r.len - HeaderSize >= ClaimedEdgeOffset(r.body)

TupleD == LineElement(3, 0, 1, Forward)
TupleE == LineElement(6, 0, 1, Forward)

\* The chains whose last tuple ends where element starts.
AppendOffers(chains, element) ==
  { k \in 1..Len(chains) :
      element.start_connected_node
        = chains[k][Len(chains[k])].end_connected_node }

\* The chains whose first tuple starts where element ends.
PrependOffers(chains, element) ==
  { k \in 1..Len(chains) :
      element.end_connected_node = chains[k][1].start_connected_node }

\* C22 as stated: a tuple is appended to a chain that offers an append
\* match whenever there is one; it is prepended only when no chain offers
\* an append match; it starts a chain only when no chain offers a match.
C22_AppendBeforePrepend ==
  [][ consumed' = consumed + 1 =>
        LET e == line_elements[consumed + 1]
            ends == AppendOffers(line_strings, e)
            starts == PrependOffers(line_strings, e)
        IN  IF ends # {}
              THEN \E k \in ends :
                     line_strings' = [line_strings EXCEPT ![k] = Append(@, e)]
            ELSE IF starts # {}
              THEN \E k \in starts :
                     line_strings' = [line_strings EXCEPT ![k] = <<e>> \o @]
            ELSE line_strings' = Append(line_strings, <<e>>)
    ]_vars

\* C22: a tuple joins the first chain, in creation order, that offers a
\* match of either kind: it is appended when that chain offers an append
\* match and prepended otherwise, whatever later chains offer; it starts a
\* chain only when no chain offers a match.
C22_FirstChainWins ==
  [][ consumed' = consumed + 1 =>
        LET e == line_elements[consumed + 1]
            ends == AppendOffers(line_strings, e)
            starts == PrependOffers(line_strings, e)
            offers == ends \cup starts
        IN  IF offers = {} THEN line_strings' = Append(line_strings, <<e>>)
            ELSE LET k == CHOOSE i \in offers : \A j \in offers : i <= j
                 IN  IF k \in ends
                       THEN line_strings'
                              = [line_strings EXCEPT ![k] = Append(@, e)]
                       ELSE line_strings'
                              = [line_strings EXCEPT ![k] = <<e>> \o @]
    ]_vars

\* B, E, A: A is put in front of B in the first chain although the second
\* chain, E, ends where A starts.
C22_Witness ==
  /\ line_elements = <<TupleB, TupleE, TupleA>>
  /\ consumed = 3
  /\ line_strings = << <<TupleA, TupleB>>, <<TupleE>> >>

\* The pairs of distinct chains of which the first ends in the node the
\* second starts from.
AdjacentChains(chains) ==
  { p \in (1..Len(chains)) \X (1..Len(chains)) :
      /\ p[1] # p[2]
      /\ chains[p[1]][Len(chains[p[1]])].end_connected_node
           = chains[p[2]][1].start_connected_node }

\* C23 as stated: when the chaining pass is over, no two distinct chains
\* are such that the first ends in the node the second starts from.
C23_ChainsAreMaximal ==
  consumed = Len(line_elements) => AdjacentChains(line_strings) = {}

\* C23: chains are never merged. A chain is adjacent to no other chain at
\* the moment it is started, and the number of chains never goes down;
\* adjacency that arises when a chain is extended later is left as it is.
C23_NewChainIsIsolated ==
  [][ consumed' = consumed + 1 =>
        /\ Len(line_strings') >= Len(line_strings)
        /\ Len(line_strings') > Len(line_strings) =>
             \A p \in AdjacentChains(line_strings') :
               Len(line_strings') \notin {p[1], p[2]}
    ]_vars

\* E, B, A: B starts a second chain next to nothing, then A extends the
\* first chain up to the node B starts from, and the two stay apart.
C23_Witness ==
  /\ line_elements = <<TupleE, TupleB, TupleA>>
  /\ consumed = 3
  /\ line_strings = << <<TupleE, TupleA>>, <<TupleB>> >>
  /\ AdjacentChains(line_strings) = {<<1, 2>>}

\* The point a node id contributes: its position, or nothing when the
\* table has no such node.
NodePoint(id) ==
  IF id \in DOMAIN connected_nodes THEN <<connected_nodes[id]>> ELSE <<>>

\* The points the edge of a tuple contributes.
EdgePoints(element) ==
  LET id == element.edge_vector
  IN  IF id = 0 \/ id \notin DOMAIN vector_edges THEN <<>>
      ELSE IF element.direction = Forward THEN vector_edges[id]
      ELSE [i \in 1..Len(vector_edges[id]) |->
              vector_edges[id][Len(vector_edges[id]) - i + 1]]

RECURSIVE PointsUpTo(_, _)
\* The points of the first n tuples of a chain.
PointsUpTo(line_string, n) ==
  IF n = 0 THEN <<>>
  ELSE PointsUpTo(line_string, n - 1)
         \o NodePoint(line_string[n].start_connected_node)
         \o EdgePoints(line_string[n])

\* C24: once build_geometries has run there is one coordinate sequence
\* per chain, in the order of the chains; the sequence of a chain lists,
\* tuple by tuple, the start node's position and then the interior
\* positions of a non-zero edge, stored order for Forward and reversed for
\* Reverse, and ends with the position of the end node of the last tuple;
\* an id missing from its table leaves out its own points only, so with
\* both tables empty every sequence is empty.
C24_OneSequencePerChain ==
  built =>
    /\ Len(geometries) = Len(line_strings)
    /\ \A k \in 1..Len(line_strings) :
         LET c == line_strings[k]
         IN  geometries[k]
               = PointsUpTo(c, Len(c))
                   \o NodePoint(c[Len(c)].end_connected_node)
    /\ (DOMAIN connected_nodes = {} /\ DOMAIN vector_edges = {}) =>
         \A k \in 1..Len(geometries) : geometries[k] = <<>>

\* B then A with every node and edge in the tables: one chain [A, B];
\* edge 0 of A adds nothing although the table has an entry 0, edge 7 of
\* B is walked backwards.
C24_Witness ==
  /\ built
  /\ line_elements = <<TupleB, TupleA>>
  /\ DOMAIN vector_edges = {0, 7, 8}
  /\ DOMAIN connected_nodes = {1, 2, 3, 5, 6}
  /\ geometries = << <<Position(1, 10), Position(2, 20), Position(7, 2),
                       Position(7, 1), Position(3, 30)>> >>

\* A Feature-Identification record of the declared size its layout has,
\* all of it in the stream.
IsFeatureIdRecord(r) ==
  /\ r.type = FEATURE_ID_RECORD
  /\ r.len = HeaderSize + FeatureIdSize
  /\ ~r.short

\* C25: a Feature-Identification record appends one feature and makes it
\* the current one whatever its type code is; the feature's type is Unknown
\* when the code is not in the type-code table, and a type of the table
\* otherwise.
C25_UnknownTypeKept ==
  [][ IsFeatureIdRecord(last') =>
        /\ result' = Running
        /\ Len(s57_vector') = Len(s57_vector) + 1
        /\ current_s57' = Len(s57_vector')
        /\ s57_vector'[current_s57'].s57_type \in KnownTypeCodes \cup {Unknown}
        /\ last'.body.feature_type_code \notin KnownTypeCodes =>
             s57_vector'[current_s57'].s57_type = Unknown
        /\ \A i \in 1..Len(s57_vector) : s57_vector'[i] = s57_vector[i]
    ]_vars

\* A feature of code 161 is the current one and has taken the attribute
\* that followed it.
C25_Witness ==
  /\ result = Running
  /\ current_s57 = 1
  /\ s57_vector[1].s57_type = Unknown
  /\ IsAttributeRecord(last)
  /\ s57_vector[1].attributes = MapInsert(EmptyMap, 2, UInt32(7))

\* C26 as stated: every iteration of the loop that does not end the call
\* leaves the stream further on than it found it.
C26_StrictlyForward ==
  [][ (nread' = nread + 1 /\ result' = Running) => pos' > pos ]_vars

\* How many times tuple t stands in the chains, and among the first n
\* tuples of the input.
TimesInChains(t) ==
  Cardinality({ p \in (1..Len(line_strings)) \X (1..MaxElements + 1) :
                  p[2] <= Len(line_strings[p[1]])
                    /\ line_strings[p[1]][p[2]] = t })

TimesConsumed(t) ==
  Cardinality({ i \in 1..consumed : line_elements[i] = t })

\* C27: at every step of the chaining pass every chain is non-empty, the
\* chains hold each tuple as many times as it was consumed and nothing
\* else (their lengths sum to the number of tuples consumed), and inside a
\* chain each tuple ends in the node the next one starts from.
C27_ChainsWellFormed ==
  /\ \A k \in 1..Len(line_strings) : line_strings[k] # <<>>
  /\ \A t \in ChainTuples : TimesInChains(t) = TimesConsumed(t)
  /\ SumSeq([k \in 1..Len(line_strings) |-> Len(line_strings[k])]) = consumed
  /\ \A k \in 1..Len(line_strings) :
       \A i \in 1..Len(line_strings[k]) - 1 :
         line_strings[k][i].end_connected_node
           = line_strings[k][i + 1].start_connected_node

\* B, A, D: A goes in front of B, D behind it, one chain of three.
C27_Witness ==
  /\ line_elements = <<TupleB, TupleA, TupleD>>
  /\ consumed = 3
  /\ line_strings = << <<TupleA, TupleB, TupleD>> >>

\* The projection origins of the soundings a feature holds.
OriginsOf(s57) ==
  { s57.multi_point_geometry[i].position.origin :
      i \in 1..Len(s57.multi_point_geometry) }

\* C28: the soundings a Multipoint record stores are projected about the
\* midpoint of the extent held when the record is processed, which is the
\* all-zero extent as long as no Extent record was processed; only an
\* Extent record changes the extent, and it changes no feature.
C28_OriginIsCurrentExtent ==
  /\ [][ /\ ( /\ last'.type = FEATURE_GEOMETRY_RECORD_MULTIPOINT
              /\ nread' = nread + 1
              /\ current_s57 # 0 ) =>
              /\ Len(s57_vector'[current_s57].multi_point_geometry)
                   = last'.body.point_count
              /\ OriginsOf(s57_vector'[current_s57]) \subseteq
                   {Rect_center(extent)}
         /\ last'.type # CELL_EXTENT_RECORD => extent' = extent
         /\ last'.type = CELL_EXTENT_RECORD => s57_vector' = s57_vector
      ]_vars
  /\ []( ( /\ nread = 2
           /\ last.type = FEATURE_GEOMETRY_RECORD_MULTIPOINT
           /\ current_s57 = 1 ) =>
           OriginsOf(s57_vector[1]) \subseteq {Rect_center(DefaultExtent)} )

\* Feature, Multipoint, Extent: the sounding keeps the midpoint of the
\* all-zero extent as its origin after the extent has changed.
C28_Witness ==
  /\ nread = 3
  /\ last.type = CELL_EXTENT_RECORD
  /\ extent # DefaultExtent
  /\ Len(s57_vector) = 1
  /\ Len(s57_vector[1].multi_point_geometry) = 1
  /\ OriginsOf(s57_vector[1]) = {Rect_center(DefaultExtent)}

\* Extent, Feature, Multipoint: the soundings have the midpoint of the
\* extent read before them as their origin.
C28_WitnessAfterExtent ==
  /\ nread = 3
  /\ last.type = FEATURE_GEOMETRY_RECORD_MULTIPOINT
  /\ extent # DefaultExtent
  /\ Len(s57_vector) = 1
  /\ OriginsOf(s57_vector[1]) = {Rect_center(extent)}

\* A record for a feature whose payload is all in the stream and of a
\* size its handler takes.
IsWholeFeatureRecord(r) ==
  /\ ~r.short
  /\ r.len >= HeaderSize
  /\ CASE r.type = FEATURE_ATTRIBUTE_RECORD -> TRUE
       [] r.type = FEATURE_GEOMETRY_RECORD_POINT ->
            r.len - HeaderSize = PointSize
       [] r.type = FEATURE_GEOMETRY_RECORD_LINE ->
            /\ r.len - HeaderSize >= LineHeaderSize
            /\ (r.len - HeaderSize - LineHeaderSize) % LineElementSize = 0
       [] r.type = FEATURE_GEOMETRY_RECORD_AREA ->
            /\ r.len - HeaderSize >= ClaimedEdgeOffset(r.body)
            /\ (r.len - HeaderSize - ClaimedEdgeOffset(r.body))
                 % LineElementSize = 0
       [] r.type = FEATURE_GEOMETRY_RECORD_MULTIPOINT ->
            r.len - HeaderSize
              >= MultipointHeaderSize + F32Size * r.body.point_count
       [] OTHER -> FALSE

\* C29: while there is no current feature, an Attribute, Point, Line, Area
\* or Multipoint record changes nothing of the chart and creates no
\* feature; when its payload is whole the loop goes on, with the next
\* header read right after the payload.
C29_NoFeatureNoEffect ==
  [][ (current_s57 = 0 /\ last'.type \in FeatureRecordTypes) =>
        /\ chart' = chart
        /\ s57_vector' = <<>>
        /\ IsWholeFeatureRecord(last') =>
             /\ result' = Running
             /\ pos' = pos + last'.len
    ]_vars

\* A Line record of one tuple, then a Multipoint record of two soundings,
\* then an Attribute record: none kept, the loop still running.
C29_Witness ==
  /\ nread = 3
  /\ result = Running
  /\ s57_vector = <<>>
  /\ current_s57 = 0
  /\ last.type = FEATURE_ATTRIBUTE_RECORD
  /\ last.body = <<1, 0, 0, 7, 0, 0, 0>>
  /\ pos = (HeaderSize + LineHeaderSize + LineElementSize)
             + (HeaderSize + MultipointHeaderSize + 6 * F32Size)
             + (HeaderSize + 7)

\* C30 as stated: after a header of a recognized type whose declared
\* length is below the header size, parse_file has returned an error value.
C30_TinyLengthIsError ==
  (last.type \in RecognizedTypes /\ last.len < HeaderSize) =>
    result \in ErrResults

\* What holds of the Version record alone.
C30_TinyVersionIsError ==
  (last.type = HEADER_SENC_VERSION /\ last.len < HeaderSize) =>
    result = ErrHeader

=============================================================================
